---- MODULE Spec2Model ----
(***************************************************************************)
(* Watch mode of the oscamp exercise dashboard (src/cli/src/main.rs).      *)
(*                                                                         *)
(* The controller thread of watch_mode is modelled as a state machine      *)
(* whose position is pc; the notify watcher thread is the action           *)
(* WatcherEvent, which only sends unit signals on the mpsc channel fs_rx.  *)
(* Exercises are numbered 0 .. total-1 as in the source.  The text of an   *)
(* exercise is represented by its index and its module, the captured       *)
(* output of a test run by its number of lines, and the terminal by the    *)
(* sequence of blocks written since the last clear of the screen.          *)
(***************************************************************************)
EXTENDS Integers, Sequences, FiniteSets

\* ---------------------------------------------------------------- bounds

\* Largest number of exercises in the registry.
MaxExercises == 3
\* Number of distinct module names in the registry.
MaxModules == 2
\* Largest number of unit signals queued on the watch channel.
MaxQueue == 2
\* Lines of captured output beyond max_lines that a test run may produce.
MaxExtraLines == 1
\* Largest number of exercises for which a header is rendered on its own.
MaxTotal == 12
\* Largest length of a text handed to rprint or rprintln on its own.
MaxText == 3

\* ------------------------------------------------------ program constants

\* render_failure: let max_lines = 30
max_lines == 30
\* render_header: progress_bar(done, total, 20)
bar_width == 20

\* ------------------------------------------------------------------ state

VARIABLES
    exercises,      \* the registry: exercises[i+1] is the module of exercise i
    total,          \* exercises.len()
    done,           \* done[i]: exercise i has passed
    current,        \* index of the exercise shown; total while none failed yet
    scan_i,         \* the startup scan's loop index
    needs_retest,   \* a retest is owed
    last_result,    \* Option<TestResult>: <<>> is None, <<r>> is Some(r)
    show_hint,
    show_list,
    key,            \* the key event read by the poll of this iteration
    fs_rx,          \* number of unit signals queued on the watch channel
    raw_mode,       \* the terminal is in raw mode
    watching,       \* the file watcher exists and watches the directory
    screen,         \* blocks written since the screen was last cleared
    pc,             \* position of the controller thread
    hist            \* history of the loop since its latest poll (see History)

vars == <<exercises, total, done, current, scan_i, needs_retest, last_result,
          show_hint, show_list, key, fs_rx, raw_mode, watching, screen, pc,
          hist>>

Modules == 1 .. MaxModules

\* Captured outputs of a test run, by their number of lines.
Outputs == {0, max_lines, max_lines + MaxExtraLines}

QuitKeys == {"q", "Esc", "Ctrl-C"}
Keys == QuitKeys \cup {"h", "l", "n", "p", "r", "Enter", "other"}
NoKey == "none"

None == <<>>
Some(r) == <<r>>

TestResult(passed, output) == [passed |-> passed, output |-> output]

RECURSIVE SeqsUpTo(_, _)
SeqsUpTo(S, n) ==
    IF n = 0 THEN {<<>>}
    ELSE LET shorter == SeqsUpTo(S, n - 1)
         IN  shorter \cup {Append(s, x) : s \in {t \in shorter : Len(t) = n - 1}, x \in S}

\* Module names matter only through equality (render_list compares each
\* exercise's module with the previous one), so the registries are taken up
\* to renaming: a module's first occurrence is numbered one more than the
\* number of modules before it.
Registry(s) ==
    \A i \in 1 .. Len(s) :
        \/ \E j \in 1 .. i - 1 : s[j] = s[i]
        \/ s[i] = 1 + Cardinality({s[j] : j \in 1 .. i - 1})

\* ------------------------------------------------------------------- text

\* A text is a sequence of characters; "x" stands for every character that
\* is neither a carriage return nor a linefeed.
Chars == {"CR", "LF", "x"}
Texts == SeqsUpTo(Chars, MaxText)

\* s starts with the text from.
starts_with(s, from) ==
    Len(s) >= Len(from) /\ SubSeq(s, 1, Len(from)) = from

\* str::replace: every match of the non-empty text from, found from left to
\* right without overlap, is replaced by to.
RECURSIVE replace(_, _, _)
replace(s, from, to) ==
    IF s = <<>> THEN <<>>
    ELSE IF starts_with(s, from)
      THEN to \o replace(SubSeq(s, Len(from) + 1, Len(s)), from, to)
      ELSE <<Head(s)>> \o replace(Tail(s), from, to)

\* Variant: the text is written as it is.
rprint_raw(s) == s

\* Variant: only the second replacement, a CR before every LF.
rprint_single(s) == replace(s, <<"LF">>, <<"CR", "LF">>)

\* What rprint writes: s.replace("\r\n", "\n").replace('\n', "\r\n")
rprint(s) == replace(replace(s, <<"CR", "LF">>, <<"LF">>), <<"LF">>, <<"CR", "LF">>)

\* What rprintln writes: rprint(out, s) and then "\r\n".
rprintln(s) == rprint(s) \o <<"CR", "LF">>

\* -------------------------------------------------------------- rendering

count_done(d) == Cardinality({i \in DOMAIN d : d[i]})

\* Variant: the filled segments are rounded to the nearest, not down.
progress_bar_rounded(dn, tot, width) ==
    LET filled == IF tot > 0 THEN (dn * width + tot \div 2) \div tot ELSE 0
        pct    == IF tot > 0 THEN (dn * 100) \div tot ELSE 0
    IN  [filled |-> filled, empty |-> width - filled, done |-> dn,
         total |-> tot, pct |-> pct]

progress_bar(dn, tot, width) ==
    LET filled == IF tot > 0 THEN (dn * width) \div tot ELSE 0
        pct    == IF tot > 0 THEN (dn * 100) \div tot ELSE 0
    IN  [filled |-> filled, empty |-> width - filled, done |-> dn,
         total |-> tot, pct |-> pct]

render_header(exs, cur, dn) ==
    <<[kind |-> "header", bar |-> progress_bar(dn, Len(exs), bar_width),
       number |-> cur + 1, total |-> Len(exs), name |-> cur,
       module |-> exs[cur + 1]]>>

\* Variant: the panel shows the head of the output, not its tail.
render_failure_head(r) ==
    LET len   == r.output
        start == IF len > max_lines THEN len - max_lines ELSE 0
    IN  <<[kind |-> "failed"]>>
        \o (IF start > 0 THEN <<[kind |-> "omitted", lines |-> start]>> ELSE <<>>)
        \o <<[kind |-> "output", first |-> 1, last |-> len - start]>>

\* The lines of the output are numbered 1 .. output; the panel shows the
\* lines first .. last after the marker that counts the omitted ones.
render_failure(r) ==
    LET len   == r.output
        start == IF len > max_lines THEN len - max_lines ELSE 0
    IN  <<[kind |-> "failed"]>>
        \o (IF start > 0 THEN <<[kind |-> "omitted", lines |-> start]>> ELSE <<>>)
        \o <<[kind |-> "output", first |-> start + 1, last |-> len]>>

render_controls == <<[kind |-> "controls"]>>

render_hint(cur) == <<[kind |-> "hint", name |-> cur]>>

RECURSIVE render_rows(_, _, _, _, _)
render_rows(exs, i, cur_module, cur, d) ==
    IF i >= Len(exs) THEN <<>>
    ELSE (IF exs[i + 1] # cur_module
            THEN <<[kind |-> "module", module |-> exs[i + 1]]>> ELSE <<>>)
         \o <<[kind |-> "row", marker |-> (i = cur), status |-> d[i],
               number |-> i + 1, name |-> i]>>
         \o render_rows(exs, i + 1, exs[i + 1], cur, d)

\* cur_module starts as the empty string, which is no module's name (0).
render_list(exs, cur, d) ==
    <<[kind |-> "list"]>> \o render_rows(exs, 0, 0, cur, d)

full_redraw(exs, cur, dn, result, sh, sl, d) ==
    (IF sl
       THEN render_header(exs, cur, dn) \o render_list(exs, cur, d)
       ELSE render_header(exs, cur, dn)
            \o (IF result # None
                  THEN IF result[1].passed
                         THEN <<[kind |-> "test_passed"]>>
                         ELSE render_failure(result[1])
                  ELSE <<>>)
            \o (IF sh THEN render_hint(cur) ELSE <<>>))
    \o render_controls

\* ------------------------------------------------------------------- Init

Init ==
    /\ exercises \in {s \in SeqsUpTo(Modules, MaxExercises) : Registry(s)}
    /\ total = Len(exercises)
    /\ done = [i \in 0 .. Len(exercises) - 1 |-> FALSE]
    /\ current = Len(exercises)
    /\ scan_i = 0
    /\ needs_retest = FALSE
    /\ last_result = None
    /\ show_hint = FALSE
    /\ show_list = FALSE
    /\ key = NoKey
    /\ fs_rx = 0
    /\ raw_mode = FALSE
    /\ watching = FALSE
    /\ screen = <<[kind |-> "scanning"]>>
    /\ pc = "scan"
    /\ hist = [key |-> FALSE, signals |-> 0, runs |-> 0, jumps |-> 0]

\* ----------------------------------------------------------- startup scan

\* Variant: every failing probe sets current, so the last one wins.
first_failing_last(cur, tot, i, passed) == IF ~passed THEN i ELSE cur

\* else if current == total { current = i; }
first_failing(cur, tot, i, passed) ==
    IF ~passed /\ cur = tot THEN i ELSE cur

\* One iteration of the scan loop in which test_quiet(ex) returns passed.
Probe(passed) ==
    /\ pc = "scan"
    /\ scan_i < total
    /\ done' = IF passed THEN [done EXCEPT ![scan_i] = TRUE] ELSE done
    /\ current' = first_failing(current, total, scan_i, passed)
    /\ scan_i' = scan_i + 1
    /\ UNCHANGED <<exercises, total, needs_retest, last_result, show_hint,
                   show_list, key, fs_rx, raw_mode, watching, screen, pc>>

\* What Command::status() gives: an error when cargo cannot be spawned,
\* otherwise the exit status of cargo test.
Statuses == {"spawn_error", "success", "failure"}

\* .status().map(|s| s.success()).unwrap_or(false)
test_quiet(status) == IF status = "spawn_error" THEN FALSE ELSE status = "success"

\* One iteration of the scan loop in which Command::status() gives status.
QuietProbe(status) == Probe(test_quiet(status))

ScanProbe == \E passed \in {test_quiet(status) : status \in Statuses} : Probe(passed)

\* Variant: raw mode is enabled before the all-passed test.
ScanAllPassed_raw ==
    /\ pc = "scan"
    /\ scan_i = total
    /\ current = total
    /\ raw_mode' = TRUE
    /\ screen' = screen \o <<[kind |-> "congratulations", total |-> total]>>
    /\ pc' = "returned"
    /\ UNCHANGED <<exercises, total, done, current, scan_i, needs_retest,
                   last_result, show_hint, show_list, key, fs_rx, watching>>

\* After the loop: the all-passed early return.
ScanAllPassed ==
    /\ pc = "scan"
    /\ scan_i = total
    /\ current = total
    /\ screen' = screen \o <<[kind |-> "congratulations", total |-> total]>>
    /\ pc' = "returned"
    /\ UNCHANGED <<exercises, total, done, current, scan_i, needs_retest,
                   last_result, show_hint, show_list, key, fs_rx, raw_mode,
                   watching>>

\* enable_raw_mode fails: expect panics before raw mode is on.
RawModeFails ==
    /\ pc = "scan"
    /\ scan_i = total
    /\ current # total
    /\ pc' = "panicked"
    /\ UNCHANGED <<exercises, total, done, current, scan_i, needs_retest,
                   last_result, show_hint, show_list, key, fs_rx, raw_mode,
                   watching, screen>>

\* RecommendedWatcher::new fails: expect panics with raw mode on.
WatcherFails ==
    /\ pc = "scan"
    /\ scan_i = total
    /\ current # total
    /\ raw_mode' = TRUE
    /\ pc' = "panicked"
    /\ UNCHANGED <<exercises, total, done, current, scan_i, needs_retest,
                   last_result, show_hint, show_list, key, fs_rx, watching,
                   screen>>

\* Variant: the loop is entered whether or not a probe failed.
EnterLoop_always ==
    /\ pc = "scan"
    /\ scan_i = total
    /\ raw_mode' = TRUE
    /\ \E watch_ok \in BOOLEAN : watching' = watch_ok
    /\ needs_retest' = TRUE
    /\ last_result' = None
    /\ show_hint' = FALSE
    /\ show_list' = FALSE
    /\ pc' = "loop"
    /\ UNCHANGED <<exercises, total, done, current, scan_i, key, fs_rx, screen>>

\* After the loop: raw mode, the watcher and the loop's variables.  The
\* result of watcher.watch("exercises") is discarded by .ok(): when it is
\* an error the loop is entered with nothing watched.
EnterLoop ==
    /\ pc = "scan"
    /\ scan_i = total
    /\ current # total
    /\ raw_mode' = TRUE
    /\ \E watch_ok \in BOOLEAN : watching' = watch_ok
    /\ needs_retest' = TRUE
    /\ last_result' = None
    /\ show_hint' = FALSE
    /\ show_list' = FALSE
    /\ pc' = "loop"
    /\ UNCHANGED <<exercises, total, done, current, scan_i, key, fs_rx, screen>>

\* ------------------------------------------------------------- main loop

\* find_next_incomplete: the for loop over i in 1..=n, from i on.
RECURSIVE find_from(_, _, _)
find_from(d, cur, i) ==
    LET n == Cardinality(DOMAIN d)
    IN  IF i > n THEN None
        ELSE IF ~d[(cur + i) % n] THEN Some((cur + i) % n)
        ELSE find_from(d, cur, i + 1)

\* Variant: the search starts at index 0 instead of after cur.
find_first_incomplete(d, cur) == find_from(d, Cardinality(DOMAIN d) - 1, 1)

find_next_incomplete(d, cur) == find_from(d, cur, 1)

\* Variant: done[current] = result.passed.
mark_done_assign(d, cur, passed) == [d EXCEPT ![cur] = passed]

\* Variant: done[current] = true whatever the result.
mark_done_always(d, cur, passed) == [d EXCEPT ![cur] = TRUE]

\* if result.passed { done[current] = true; ... }
mark_done(d, cur, passed) == IF passed THEN [d EXCEPT ![cur] = TRUE] ELSE d

\* Variant: no wraparound.
next_index_nowrap(cur, tot) == cur + 1

\* KeyCode::Char('n')
next_index(cur, tot) == (cur + 1) % tot

\* Variant: Previous stops at index 0.
previous_index_nowrap(cur, tot) == IF cur > 0 THEN cur - 1 ELSE 0

\* KeyCode::Char('p')
previous_index(cur, tot) == IF cur > 0 THEN cur - 1 ELSE tot - 1

\* Variant: show_list is not cleared.
BeginRetest_keeplist ==
    /\ pc = "loop"
    /\ needs_retest
    /\ show_hint' = FALSE
    /\ screen' = render_header(exercises, current, count_done(done))
                 \o <<[kind |-> "testing", name |-> current]>>
    /\ pc' = "testing"
    /\ UNCHANGED <<exercises, total, done, current, scan_i, needs_retest,
                   last_result, show_list, key, fs_rx, raw_mode, watching>>

\* Variant: the channel is emptied when a run starts.
BeginRetest_flush ==
    /\ pc = "loop"
    /\ needs_retest
    /\ show_hint' = FALSE
    /\ show_list' = FALSE
    /\ fs_rx' = 0
    /\ screen' = render_header(exercises, current, count_done(done))
                 \o <<[kind |-> "testing", name |-> current]>>
    /\ pc' = "testing"
    /\ UNCHANGED <<exercises, total, done, current, scan_i, needs_retest,
                   last_result, key, raw_mode, watching>>

\* The top of the loop when a retest is owed: the toggles are cleared and
\* the placeholder drawn, then test_exercise blocks the controller.
BeginRetest ==
    /\ pc = "loop"
    /\ needs_retest
    /\ show_hint' = FALSE
    /\ show_list' = FALSE
    /\ screen' = render_header(exercises, current, count_done(done))
                 \o <<[kind |-> "testing", name |-> current]>>
    /\ pc' = "testing"
    /\ UNCHANGED <<exercises, total, done, current, scan_i, needs_retest,
                   last_result, key, fs_rx, raw_mode, watching>>

\* test_exercise cannot spawn cargo: expect panics; the unwinding drops the
\* watcher and nothing disables raw mode.
SpawnFails ==
    /\ pc = "testing"
    /\ watching' = FALSE
    /\ pc' = "panicked"
    /\ UNCHANGED <<exercises, total, done, current, scan_i, needs_retest,
                   last_result, show_hint, show_list, key, fs_rx, raw_mode,
                   screen>>

\* Variant: a failing run clears done[current].
RunFailed_unmark ==
    /\ pc = "testing"
    /\ \E output \in Outputs :
        LET result == TestResult(FALSE, output)
        IN  /\ done' = [done EXCEPT ![current] = FALSE]
            /\ screen' = render_header(exercises, current, count_done(done'))
                         \o render_failure(result) \o render_controls
            /\ last_result' = Some(result)
    /\ needs_retest' = FALSE
    /\ pc' = "loop"
    /\ UNCHANGED <<exercises, total, current, scan_i, show_hint, show_list,
                   key, fs_rx, raw_mode, watching>>

\* Variant: a failing run does not store its result.
RunFailed_keeplast ==
    /\ pc = "testing"
    /\ \E output \in Outputs :
        LET result == TestResult(FALSE, output)
        IN  /\ done' = mark_done(done, current, result.passed)
            /\ screen' = render_header(exercises, current, count_done(done'))
                         \o render_failure(result) \o render_controls
    /\ needs_retest' = FALSE
    /\ pc' = "loop"
    /\ UNCHANGED <<exercises, total, current, scan_i, last_result, show_hint,
                   show_list, key, fs_rx, raw_mode, watching>>

\* test_exercise returns a failure.
RunFailed ==
    /\ pc = "testing"
    /\ \E output \in Outputs :
        LET result == TestResult(FALSE, output)
        IN  /\ done' = mark_done(done, current, result.passed)
            /\ screen' = render_header(exercises, current, count_done(done'))
                         \o render_failure(result) \o render_controls
            /\ last_result' = Some(result)
    /\ needs_retest' = FALSE
    /\ pc' = "loop"
    /\ UNCHANGED <<exercises, total, current, scan_i, show_hint, show_list,
                   key, fs_rx, raw_mode, watching>>

\* Variant: no continue after the auto-jump, so the controls are drawn and
\* the retest flag is cleared.
RunPassedAdvance_fallthrough ==
    /\ pc = "testing"
    /\ \E output \in Outputs :
        LET result == TestResult(TRUE, output)
            d      == mark_done(done, current, result.passed)
            next   == find_next_incomplete(d, current)
        IN  /\ next # None
            /\ done' = d
            /\ current' = next[1]
            /\ screen' = render_header(exercises, current, count_done(d))
                         \o <<[kind |-> "passed", name |-> current],
                              [kind |-> "auto_jump", name |-> next[1]]>>
                         \o render_controls
            /\ last_result' = Some(result)
    /\ needs_retest' = FALSE
    /\ pc' = "loop"
    /\ UNCHANGED <<exercises, total, scan_i, show_hint, show_list, key,
                   fs_rx, raw_mode, watching>>

\* Variant: after the auto-jump the loop goes on to the file-watch check
\* instead of continuing at its head.
RunPassedAdvance_poll ==
    /\ pc = "testing"
    /\ \E output \in Outputs :
        LET result == TestResult(TRUE, output)
            d      == mark_done(done, current, result.passed)
            next   == find_next_incomplete(d, current)
        IN  /\ next # None
            /\ done' = d
            /\ current' = next[1]
            /\ screen' = render_header(exercises, current, count_done(d))
                         \o <<[kind |-> "passed", name |-> current],
                              [kind |-> "auto_jump", name |-> next[1]]>>
            /\ last_result' = Some(result)
    /\ needs_retest' = TRUE
    /\ pc' = "fs_check"
    /\ UNCHANGED <<exercises, total, scan_i, show_hint, show_list, key,
                   fs_rx, raw_mode, watching>>

\* Variant: a passing run that auto-advances leaves done as it was.
RunPassedAdvance_nomark ==
    /\ pc = "testing"
    /\ \E output \in Outputs :
        LET result == TestResult(TRUE, output)
            d      == mark_done(done, current, result.passed)
            next   == find_next_incomplete(d, current)
        IN  /\ next # None
            /\ done' = done
            /\ current' = next[1]
            /\ screen' = render_header(exercises, current, count_done(d))
                         \o <<[kind |-> "passed", name |-> current],
                              [kind |-> "auto_jump", name |-> next[1]]>>
            /\ last_result' = Some(result)
    /\ needs_retest' = TRUE
    /\ pc' = "loop"
    /\ UNCHANGED <<exercises, total, scan_i, show_hint, show_list, key,
                   fs_rx, raw_mode, watching>>

\* test_exercise returns a pass and another exercise is incomplete.
RunPassedAdvance ==
    /\ pc = "testing"
    /\ \E output \in Outputs :
        LET result == TestResult(TRUE, output)
            d      == mark_done(done, current, result.passed)
            next   == find_next_incomplete(d, current)
        IN  /\ next # None
            /\ done' = d
            /\ current' = next[1]
            /\ screen' = render_header(exercises, current, count_done(d))
                         \o <<[kind |-> "passed", name |-> current],
                              [kind |-> "auto_jump", name |-> next[1]]>>
            /\ last_result' = Some(result)
    /\ needs_retest' = TRUE
    /\ pc' = "loop"
    /\ UNCHANGED <<exercises, total, scan_i, show_hint, show_list, key,
                   fs_rx, raw_mode, watching>>

\* test_exercise returns a pass and no exercise is incomplete.
RunPassedAllComplete ==
    /\ pc = "testing"
    /\ LET d == mark_done(done, current, TRUE)
       IN  /\ find_next_incomplete(d, current) = None
           /\ done' = d
           /\ screen' = render_header(exercises, current, count_done(d))
                        \o <<[kind |-> "passed", name |-> current],
                             [kind |-> "congratulations", total |-> total],
                             [kind |-> "press_q"]>>
    /\ pc' = "wait_quit"
    /\ UNCHANGED <<exercises, total, current, scan_i, needs_retest,
                   last_result, show_hint, show_list, key, fs_rx, raw_mode,
                   watching>>

\* ------------------------------------------------------------- event loop

\* Variant: the controller polls while test_exercise is running too.
Polling_anytime == pc \in {"loop", "testing"}

\* The controller polls only when no retest is owed at the top of the loop.
Polling == pc = "loop" /\ ~needs_retest

\* After the loop: disable_raw_mode, clear, goodbye; the watcher is dropped.
LeaveLoop ==
    /\ raw_mode' = FALSE
    /\ watching' = FALSE
    /\ screen' = <<[kind |-> "goodbye"]>>
    /\ pc' = "exit"

\* Variant: a quit key is honoured only after the file-watch check.
KeyQuit_deferred ==
    /\ Polling
    /\ key' \in QuitKeys
    /\ pc' = "fs_check"
    /\ UNCHANGED <<exercises, total, done, current, scan_i, needs_retest,
                   last_result, show_hint, show_list, fs_rx, raw_mode,
                   watching, screen>>

\* KeyCode::Char('q') | KeyCode::Esc, and Ctrl-C: break.
KeyQuit ==
    /\ Polling
    /\ key' \in QuitKeys
    /\ LeaveLoop
    /\ UNCHANGED <<exercises, total, done, current, scan_i, needs_retest,
                   last_result, show_hint, show_list, fs_rx>>

\* The redraw of key 'h': full_redraw is passed false for show_list.
hint_redraw(exs, cur, d, result, sh, sl) ==
    full_redraw(exs, cur, count_done(d), result, sh, FALSE, d)

\* The redraw of key 'l'.
list_redraw(exs, cur, d, result, sh, sl) ==
    full_redraw(exs, cur, count_done(d), result, sh, sl, d)

KeyHint ==
    /\ Polling
    /\ key' = "h"
    /\ show_hint' = ~show_hint
    /\ screen' = hint_redraw(exercises, current, done, last_result,
                             show_hint', show_list)
    /\ pc' = "fs_check"
    /\ UNCHANGED <<exercises, total, done, current, scan_i, needs_retest,
                   last_result, show_list, fs_rx, raw_mode, watching>>

\* Variant: key 'l' also requests a retest.
KeyList_retest ==
    /\ Polling
    /\ key' = "l"
    /\ show_list' = ~show_list
    /\ screen' = list_redraw(exercises, current, done, last_result,
                             show_hint, show_list')
    /\ needs_retest' = TRUE
    /\ pc' = "fs_check"
    /\ UNCHANGED <<exercises, total, done, current, scan_i, last_result,
                   show_hint, fs_rx, raw_mode, watching>>

KeyList ==
    /\ Polling
    /\ key' = "l"
    /\ show_list' = ~show_list
    /\ screen' = list_redraw(exercises, current, done, last_result,
                             show_hint, show_list')
    /\ pc' = "fs_check"
    /\ UNCHANGED <<exercises, total, done, current, scan_i, needs_retest,
                   last_result, show_hint, fs_rx, raw_mode, watching>>

\* Variant: Next marks the exercise it leaves as done.
KeyNext_skip ==
    /\ Polling
    /\ key' = "n"
    /\ done' = [done EXCEPT ![current] = TRUE]
    /\ current' = next_index(current, total)
    /\ needs_retest' = TRUE
    /\ pc' = "fs_check"
    /\ UNCHANGED <<exercises, total, scan_i, last_result, show_hint,
                   show_list, fs_rx, raw_mode, watching, screen>>

\* KeyCode::Char('n')
KeyNext ==
    /\ Polling
    /\ key' = "n"
    /\ current' = next_index(current, total)
    /\ needs_retest' = TRUE
    /\ pc' = "fs_check"
    /\ UNCHANGED <<exercises, total, done, scan_i, last_result, show_hint,
                   show_list, fs_rx, raw_mode, watching, screen>>

\* Variant: Previous moves current and requests no retest.
KeyPrevious_norequest ==
    /\ Polling
    /\ key' = "p"
    /\ current' = previous_index(current, total)
    /\ pc' = "fs_check"
    /\ UNCHANGED <<exercises, total, done, scan_i, needs_retest, last_result,
                   show_hint, show_list, fs_rx, raw_mode, watching, screen>>

KeyPrevious ==
    /\ Polling
    /\ key' = "p"
    /\ current' = previous_index(current, total)
    /\ needs_retest' = TRUE
    /\ pc' = "fs_check"
    /\ UNCHANGED <<exercises, total, done, scan_i, last_result, show_hint,
                   show_list, fs_rx, raw_mode, watching, screen>>

\* Variant: the Retest key requests nothing.
KeyRetest_ignored ==
    /\ Polling
    /\ key' \in {"r", "Enter"}
    /\ pc' = "fs_check"
    /\ UNCHANGED <<exercises, total, done, current, scan_i, needs_retest,
                   last_result, show_hint, show_list, fs_rx, raw_mode,
                   watching, screen>>

\* KeyCode::Char('r') | KeyCode::Enter
KeyRetest ==
    /\ Polling
    /\ key' \in {"r", "Enter"}
    /\ needs_retest' = TRUE
    /\ pc' = "fs_check"
    /\ UNCHANGED <<exercises, total, done, current, scan_i, last_result,
                   show_hint, show_list, fs_rx, raw_mode, watching, screen>>

\* Variant: every other key requests a retest.
KeyOther_retest ==
    /\ Polling
    /\ key' = "other"
    /\ needs_retest' = TRUE
    /\ pc' = "fs_check"
    /\ UNCHANGED <<exercises, total, done, current, scan_i, last_result,
                   show_hint, show_list, fs_rx, raw_mode, watching, screen>>

\* Any other key, or an event that is not a key.
KeyOther ==
    /\ Polling
    /\ key' = "other"
    /\ pc' = "fs_check"
    /\ UNCHANGED <<exercises, total, done, current, scan_i, needs_retest,
                   last_result, show_hint, show_list, fs_rx, raw_mode,
                   watching, screen>>

\* event::poll returns false after 200 ms.
PollTimeout ==
    /\ Polling
    /\ key' = NoKey
    /\ pc' = "fs_check"
    /\ UNCHANGED <<exercises, total, done, current, scan_i, needs_retest,
                   last_result, show_hint, show_list, fs_rx, raw_mode,
                   watching, screen>>

\* fs_rx.try_recv() finds the channel empty.
FsCheckEmpty ==
    /\ pc = "fs_check"
    /\ fs_rx = 0
    /\ key' = NoKey
    /\ pc' = "loop"
    /\ UNCHANGED <<exercises, total, done, current, scan_i, needs_retest,
                   last_result, show_hint, show_list, fs_rx, raw_mode,
                   watching, screen>>

\* Variant: when a key has already requested a retest the signals are left
\* in the channel for the next iteration.
FsCheckDrain_keyfirst ==
    /\ pc = "fs_check"
    /\ fs_rx > 0
    /\ IF needs_retest
         THEN fs_rx' = fs_rx /\ pc' = "loop"
         ELSE fs_rx' = 0 /\ pc' = "debounce"
    /\ key' = NoKey
    /\ UNCHANGED <<exercises, total, done, current, scan_i, needs_retest,
                   last_result, show_hint, show_list, raw_mode, watching,
                   screen>>

\* fs_rx.try_recv() takes a signal; the queue is drained and the controller
\* sleeps for the quiet window.
FsCheckDrain ==
    /\ pc = "fs_check"
    /\ fs_rx > 0
    /\ fs_rx' = 0
    /\ key' = NoKey
    /\ pc' = "debounce"
    /\ UNCHANGED <<exercises, total, done, current, scan_i, needs_retest,
                   last_result, show_hint, show_list, raw_mode, watching,
                   screen>>

\* Variant: no second drain after the sleep.
DebounceEnd_nodrain ==
    /\ pc = "debounce"
    /\ needs_retest' = TRUE
    /\ pc' = "loop"
    /\ UNCHANGED <<exercises, total, done, current, scan_i, last_result,
                   show_hint, show_list, key, fs_rx, raw_mode, watching,
                   screen>>

\* Variant: the drained signals request no retest.
DebounceEnd_norequest ==
    /\ pc = "debounce"
    /\ fs_rx' = 0
    /\ pc' = "loop"
    /\ UNCHANGED <<exercises, total, done, current, scan_i, needs_retest,
                   last_result, show_hint, show_list, key, raw_mode, watching,
                   screen>>

\* The quiet window ends: the queue is drained again and a retest is owed.
DebounceEnd ==
    /\ pc = "debounce"
    /\ fs_rx' = 0
    /\ needs_retest' = TRUE
    /\ pc' = "loop"
    /\ UNCHANGED <<exercises, total, done, current, scan_i, last_result,
                   show_hint, show_list, key, raw_mode, watching, screen>>

\* Variant: Enter ends the wait as well.
is_quit_key_enter(k) == k \in {"q", "Esc", "Ctrl-C", "Enter"}

\* wait_for_quit: the key that ends the wait.
is_quit_key(k) == k \in {"q", "Esc", "Ctrl-C"}

\* wait_for_quit reads one key; a quit key returns, and the loop is left.
WaitForQuit ==
    /\ pc = "wait_quit"
    /\ \E k \in Keys :
        /\ key' = k
        /\ IF is_quit_key(k)
             THEN LeaveLoop
             ELSE UNCHANGED <<raw_mode, watching, screen, pc>>
    /\ UNCHANGED <<exercises, total, done, current, scan_i, needs_retest,
                   last_result, show_hint, show_list, fs_rx>>

\* --------------------------------------------------------- watcher thread

\* notify::EventKind with the payload of Modify (notify::event::ModifyKind):
\* a rename is reported as Modify(Name(_)), a write as Modify(Data(_)).
EventKinds ==
    {<<"Any">>, <<"Access">>, <<"Create">>, <<"Modify", "Any">>,
     <<"Modify", "Data">>, <<"Modify", "Metadata">>, <<"Modify", "Name">>,
     <<"Modify", "Other">>, <<"Remove">>, <<"Other">>}

\* Result<notify::Event, notify::Error>, as the callback receives it.
WatchResults ==
    {[ok |-> TRUE, kind |-> k] : k \in EventKinds}
        \cup {[ok |-> FALSE, kind |-> <<"Error">>]}

\* Variant: every callback sends a signal.
sends_signal_any(res) == TRUE

\* if let Ok(ev) = res { if matches!(ev.kind, Modify(_) | Create(_)) {..} }
sends_signal(res) == res.ok /\ res.kind[1] \in {"Modify", "Create"}

\* One call of the notify callback, which sends a signal or does not.
CallbackRuns(sends) ==
    /\ watching
    /\ fs_rx' = IF sends THEN fs_rx + 1 ELSE fs_rx
    /\ fs_rx' <= MaxQueue
    /\ UNCHANGED <<pc, scan_i, key, exercises, total, done, current,
                   needs_retest, last_result, show_hint, show_list, raw_mode,
                   watching, screen>>

\* Variant: the callback requests the retest itself.
WatcherEvent_direct ==
    /\ watching
    /\ needs_retest' = TRUE
    /\ fs_rx' = fs_rx
    /\ UNCHANGED <<exercises, total, done, current, scan_i, last_result,
                   show_hint, show_list, key, raw_mode, watching, screen, pc>>

\* One call of the notify callback with res.
Callback(res) == CallbackRuns(sends_signal(res))

\* The watcher thread: the callback runs at any time while the watcher
\* exists, with any result.
WatcherEvent ==
    \E sends \in {sends_signal(res) : res \in WatchResults} : CallbackRuns(sends)

\* ---------------------------------------------------------------- history

NoHistory == [key |-> FALSE, signals |-> 0, runs |-> 0, jumps |-> 0]

\* hist records what the controller has done since the poll that led to the
\* retest in progress (since the entry into the loop for the first one):
\*   key      that poll read a key that requests a retest (n, p, r, Enter)
\*   signals  unit signals the controller has taken from the channel,
\*            counted up to 2 (2 stands for two or more)
\*   runs     calls of test_exercise
\*   jumps    auto-advances after a pass
\* It is cleared when a run returns and no retest is owed.  No statement of
\* the program writes or reads it.
History ==
    hist' =
      IF Polling /\ pc' # "loop"
        THEN [NoHistory EXCEPT !.key = key' \in {"n", "p", "r", "Enter"}]
      ELSE IF pc \in {"fs_check", "debounce"} /\ pc' # pc
        THEN [hist EXCEPT !.signals =
                 IF @ + fs_rx - fs_rx' > 2 THEN 2 ELSE @ + fs_rx - fs_rx']
      ELSE IF pc = "loop" /\ pc' = "testing"
        THEN [hist EXCEPT !.runs = @ + 1]
      ELSE IF pc = "testing" /\ pc' = "loop"
              /\ \E i \in DOMAIN screen' : screen'[i].kind = "auto_jump"
        THEN [hist EXCEPT !.jumps = @ + 1]
      ELSE IF pc = "testing" /\ pc' # "testing"
              /\ ~(pc' = "loop" /\ needs_retest')
        THEN NoHistory
      ELSE hist

Next ==
    \/ ScanProbe /\ History
    \/ ScanAllPassed /\ History
    \/ RawModeFails /\ History
    \/ WatcherFails /\ History
    \/ EnterLoop /\ History
    \/ BeginRetest /\ History
    \/ SpawnFails /\ History
    \/ RunFailed /\ History
    \/ RunPassedAdvance /\ History
    \/ RunPassedAllComplete /\ History
    \/ KeyQuit /\ History
    \/ KeyHint /\ History
    \/ KeyList /\ History
    \/ KeyNext /\ History
    \/ KeyPrevious /\ History
    \/ KeyRetest /\ History
    \/ KeyOther /\ History
    \/ PollTimeout /\ History
    \/ FsCheckEmpty /\ History
    \/ FsCheckDrain /\ History
    \/ DebounceEnd /\ History
    \/ WaitForQuit /\ History
    \/ WatcherEvent /\ History

Spec == Init /\ [][Next]_vars

\* The steps of the controller thread: every step but the watcher's.
Controller ==
    /\ \/ ScanProbe
       \/ ScanAllPassed
       \/ RawModeFails
       \/ WatcherFails
       \/ EnterLoop
       \/ BeginRetest
       \/ SpawnFails
       \/ RunFailed
       \/ RunPassedAdvance
       \/ RunPassedAllComplete
       \/ KeyQuit
       \/ KeyHint
       \/ KeyList
       \/ KeyNext
       \/ KeyPrevious
       \/ KeyRetest
       \/ KeyOther
       \/ PollTimeout
       \/ FsCheckEmpty
       \/ FsCheckDrain
       \/ DebounceEnd
       \/ WaitForQuit
    /\ History

\* The controller thread keeps running: event::poll times out after 50 ms,
\* the sleeps end, and test_exercise returns or panics.  Nothing is assumed
\* of the watcher or of the keys that are typed.
FairSpec == Spec /\ WF_vars(Controller)

\* ------------------------------------------- the renderer taken on its own

\* The functions of the renderer are applied once to arguments that the
\* initial state holds in the variables they are read from: the registry and
\* done for the header, last_result for the failure panel.  For rprint and
\* rprintln the screen is the text written to the terminal.
RenderInit ==
    /\ \/ /\ pc = "render_header"
          /\ exercises \in {[i \in 1 .. n |-> 1] : n \in 1 .. MaxTotal}
          /\ done \in {[i \in 0 .. Len(exercises) - 1 |-> i < k] :
                         k \in 0 .. Len(exercises)}
          /\ last_result = None
       \/ /\ pc = "render_failure"
          /\ exercises = <<1>>
          /\ done = [i \in {0} |-> FALSE]
          /\ last_result \in {Some(TestResult(FALSE, len)) :
                                 len \in 0 .. max_lines + MaxExtraLines}
       \/ /\ pc = "rprint"
          /\ exercises = <<1>>
          /\ done = [i \in {0} |-> FALSE]
          /\ last_result = None
    /\ total = Len(exercises)
    /\ current = 0
    /\ scan_i = total
    /\ needs_retest = FALSE
    /\ show_hint = FALSE
    /\ show_list = FALSE
    /\ key = NoKey
    /\ fs_rx = 0
    /\ raw_mode = TRUE
    /\ watching = FALSE
    /\ screen = <<>>
    /\ hist = NoHistory

RenderHeader ==
    /\ pc = "render_header"
    /\ screen' = render_header(exercises, current, count_done(done))
    /\ pc' = "header_rendered"
    /\ UNCHANGED <<exercises, total, done, current, scan_i, needs_retest,
                   last_result, show_hint, show_list, key, fs_rx, raw_mode,
                   watching, hist>>

RenderFailure ==
    /\ pc = "render_failure"
    /\ screen' = render_failure(last_result[1])
    /\ pc' = "failure_rendered"
    /\ UNCHANGED <<exercises, total, done, current, scan_i, needs_retest,
                   last_result, show_hint, show_list, key, fs_rx, raw_mode,
                   watching, hist>>

\* rprint(out, s) on an empty screen.
RprintText(s) ==
    /\ pc = "rprint"
    /\ screen' = screen \o rprint(s)
    /\ pc' = "printed"
    /\ UNCHANGED <<exercises, total, done, current, scan_i, needs_retest,
                   last_result, show_hint, show_list, key, fs_rx, raw_mode,
                   watching, hist>>

Rprint == \E s \in Texts : RprintText(s)

Rprintln ==
    /\ pc = "rprint"
    /\ \E s \in Texts : screen' = screen \o rprintln(s)
    /\ pc' = "printed"
    /\ UNCHANGED <<exercises, total, done, current, scan_i, needs_retest,
                   last_result, show_hint, show_list, key, fs_rx, raw_mode,
                   watching, hist>>

RenderNext ==
    \/ RenderHeader
    \/ RenderFailure
    \/ Rprint
    \/ Rprintln

RenderSpec == RenderInit /\ [][RenderNext]_vars

\* ------------------------------------------------- the run and hint modes

\* run_mode and hint_mode on their own.  Here exercises[i+1] is the package
\* of exercise i, current is the index of the exercise that was found, and
\* pc ends at "returned" (main returns), "exited_failure"
\* (std::process::exit(1)) or "panicked".

\* The package names of the registry.
Packages == 1 .. MaxModules

\* The names that can be given on the command line: every package name and
\* one name that no exercise has.
Names == 1 .. MaxModules + 1

\* args.get(2): absent or a name.
Args == {None} \cup {Some(name) : name \in Names}

\* Variant: a name that matches nothing selects the first exercise.
find_exercise_first(exs, name) ==
    LET hits == {i \in 0 .. Len(exs) - 1 : exs[i + 1] = name}
    IN  IF hits # {}
          THEN Some(CHOOSE i \in hits : \A j \in hits : i <= j)
          ELSE IF Len(exs) > 0 THEN Some(0) ELSE None

\* exercises.iter().find(|e| e.package == name): the index of the first
\* exercise whose package is name; None where the source prints
\* "Exercise not found" and exits.
find_exercise(exs, name) ==
    LET hits == {i \in 0 .. Len(exs) - 1 : exs[i + 1] = name}
    IN  IF hits # {}
          THEN Some(CHOOSE i \in hits : \A j \in hits : i <= j)
          ELSE None

CliInit ==
    /\ pc \in {"run_mode", "hint_mode"}
    /\ exercises \in SeqsUpTo(Packages, MaxExercises)
    /\ total = Len(exercises)
    /\ done = [i \in 0 .. Len(exercises) - 1 |-> FALSE]
    /\ current = Len(exercises)
    /\ scan_i = 0
    /\ needs_retest = FALSE
    /\ last_result = None
    /\ show_hint = FALSE
    /\ show_list = FALSE
    /\ key = NoKey
    /\ fs_rx = 0
    /\ raw_mode = FALSE
    /\ watching = FALSE
    /\ screen = <<>>
    /\ hist = NoHistory

\* What a mode does with its argument before anything else: without a name
\* the usage line on standard error and exit(1); with a name that
\* find_exercise does not find, its two lines on standard error and
\* exit(1); otherwise the mode prints its first two lines about the
\* exercise and goes on at found.
with_exercise(arg, usage, found, kinds) ==
    IF arg = None
      THEN /\ screen' = <<[kind |-> "stderr", text |-> usage]>>
           /\ pc' = "exited_failure"
           /\ UNCHANGED current
      ELSE LET ex == find_exercise(exercises, arg[1])
           IN  IF ex = None
                 THEN /\ screen' = <<[kind |-> "stderr", text |-> "not_found",
                                      name |-> arg[1]],
                                     [kind |-> "stderr", text |-> "use_list"]>>
                      /\ pc' = "exited_failure"
                      /\ UNCHANGED current
                 ELSE /\ screen' = <<[kind |-> kinds[1], name |-> ex[1]],
                                     [kind |-> kinds[2], name |-> ex[1]]>>
                      /\ pc' = found
                      /\ current' = ex[1]

\* run_mode up to the call of test_exercise.
RunModeFind(arg) ==
    /\ pc = "run_mode"
    /\ with_exercise(arg, "usage_run", "run_testing",
                     <<"run_title", "run_path">>)
    /\ UNCHANGED <<exercises, total, done, scan_i, needs_retest, last_result,
                   show_hint, show_list, key, fs_rx, raw_mode, watching, hist>>

RunMode == \E arg \in Args : RunModeFind(arg)

\* test_exercise returns passed: the output and "Test passed!".
RunModePassed ==
    /\ pc = "run_testing"
    /\ \E output \in Outputs :
        /\ last_result' = Some(TestResult(TRUE, output))
        /\ screen' = screen \o <<[kind |-> "run_output", lines |-> output],
                                 [kind |-> "run_passed"]>>
    /\ pc' = "returned"
    /\ UNCHANGED <<exercises, total, done, current, scan_i, needs_retest,
                   show_hint, show_list, key, fs_rx, raw_mode, watching, hist>>

\* test_exercise returns failed: the output, "Test failed" and the pointer
\* to the hint command.
RunModeFailed ==
    /\ pc = "run_testing"
    /\ \E output \in Outputs :
        /\ last_result' = Some(TestResult(FALSE, output))
        /\ screen' = screen \o <<[kind |-> "run_output", lines |-> output],
                                 [kind |-> "run_failed"],
                                 [kind |-> "run_use_hint",
                                  name |-> exercises[current + 1]]>>
    /\ pc' = "returned"
    /\ UNCHANGED <<exercises, total, done, current, scan_i, needs_retest,
                   show_hint, show_list, key, fs_rx, raw_mode, watching, hist>>

\* test_exercise: cargo cannot be started and expect panics.
RunModeSpawnFails ==
    /\ pc = "run_testing"
    /\ pc' = "panicked"
    /\ UNCHANGED <<exercises, total, done, current, scan_i, needs_retest,
                   last_result, show_hint, show_list, key, fs_rx, raw_mode,
                   watching, screen, hist>>

\* hint_mode.
HintModeFind(arg) ==
    /\ pc = "hint_mode"
    /\ with_exercise(arg, "usage_hint", "returned",
                     <<"hint_title", "hint_text">>)
    /\ UNCHANGED <<exercises, total, done, scan_i, needs_retest, last_result,
                   show_hint, show_list, key, fs_rx, raw_mode, watching, hist>>

HintMode == \E arg \in Args : HintModeFind(arg)

CliNext ==
    \/ RunMode
    \/ RunModePassed
    \/ RunModeFailed
    \/ RunModeSpawnFails
    \/ HintMode

CliSpec == CliInit /\ [][CliNext]_vars

\* ----------------------------------------------------------------- claims

Indices == 0 .. total - 1

\* The blocks of kind k on screen s.
Shown(s, k) == \E i \in DOMAIN s : s[i].kind = k

\* test_exercise returns passed = true.
RunPassed == RunPassedAdvance \/ RunPassedAllComplete

\* The incomplete exercises of d by their forward distance from cur.
IncompleteAhead(d, cur) == {k \in 1 .. total : ~d[(cur + k) % total]}

\* C1: monotonicity of progress.  In every behaviour of watch mode, once
\* done[i] is true it is true in every later state.
C1_DoneMonotonic ==
    [][\A i \in DOMAIN done : done[i] => done'[i]]_vars

\* C1 witness: a retest of an exercise that is marked done has failed.
C1_Witness ==
    /\ pc = "loop"
    /\ ~needs_retest
    /\ last_result # None
    /\ ~last_result[1].passed
    /\ done[current]

\* C2: auto-advance.  After a passing run the new current is the first
\* index in the order current+1, current+2, ... (mod total) whose done is
\* false; if there is none the session enters AllComplete (wait_for_quit)
\* and leaves it only by quitting.
C2_AutoAdvance ==
    [][/\ RunPassed =>
            LET ahead == IncompleteAhead(done', current)
            IN  IF ahead = {}
                  THEN pc' = "wait_quit"
                  ELSE /\ pc' = "loop"
                       /\ \E k \in ahead :
                            /\ current' = (current + k) % total
                            /\ \A j \in ahead : k <= j
       /\ pc = "wait_quit" =>
            \/ pc' = "wait_quit"
            \/ pc' = "exit" /\ key' \in QuitKeys]_vars

\* C2 witness: an auto-advance has wrapped around to a smaller index.
C2_Witness ==
    /\ pc = "loop"
    /\ Len(screen) = 3
    /\ screen[2].kind = "passed"
    /\ screen[3].kind = "auto_jump"
    /\ screen[3].name = current
    /\ current < screen[2].name

\* C3 as stated: current is a valid index in every reachable state of
\* watch mode.
C3_CurrentAlwaysValid == 0 <= current /\ current < total

\* C3 amended: current is a valid index in every state from the entry into
\* the main loop on; during the startup scan and after the all-passed
\* return it may hold the sentinel total.
C3_CurrentValidInLoop ==
    pc \notin {"scan", "returned"} => current \in Indices

\* C3 witness: Previous at index 0 has wrapped to the last index.
C3_Witness ==
    /\ pc = "fs_check"
    /\ key = "p"
    /\ total > 1
    /\ current = total - 1

\* C4: a failing retest changes no progress.  When the run returns
\* passed = false, current and done are as before the run and the failure
\* panel of that run is what is shown.
C4_FailureFrame ==
    [][RunFailed =>
         /\ current' = current
         /\ done' = done
         /\ Shown(screen', "failed")
         /\ ~Shown(screen', "passed")
         /\ ~Shown(screen', "list")
         /\ \A i \in DOMAIN screen' :
              screen'[i].kind = "output" => screen'[i].last = last_result'[1].output
         /\ screen'[1].kind = "header"
         /\ screen'[1].name = current]_vars

\* C4 witness (scenario A): three exercises, none done, exercise 0 failed.
C4_Witness ==
    /\ total = 3
    /\ \A i \in Indices : ~done[i]
    /\ current = 0
    /\ pc = "loop"
    /\ ~needs_retest
    /\ Shown(screen, "failed")

\* C5: when a retest of exercise c passes and another exercise is
\* incomplete, done[c] becomes true, current moves to the next incomplete
\* exercise and a retest is owed; with a retest owed the controller's next
\* step starts the run of current without reading a key or the channel.
C5_PassThenRetest ==
    [][/\ (RunPassed /\ \E i \in Indices \ {current} : ~done[i]) =>
            /\ done'[current]
            /\ current' # current
            /\ ~done'[current']
            /\ \A k \in IncompleteAhead(done', current) :
                 (current' - current) % total <= k
            /\ needs_retest'
            /\ pc' = "loop"
            /\ Shown(screen', "auto_jump")
       /\ (pc = "loop" /\ needs_retest) =>
            \/ /\ pc' = "testing"
               /\ UNCHANGED <<current, done, key, fs_rx>>
               /\ screen'[2] = [kind |-> "testing", name |-> current]
            \/ UNCHANGED <<exercises, total, done, current, scan_i,
                           needs_retest, last_result, show_hint, show_list,
                           key, raw_mode, watching, screen, pc>>]_vars

\* C5 witness (scenario B): the run that follows an auto-advance has begun.
C5_Witness ==
    /\ pc = "testing"
    /\ last_result # None
    /\ last_result[1].passed
    /\ \E i \in Indices : done[i]
    /\ ~done[current]

\* C6: AllComplete is absorbing except for Quit.  In wait_for_quit no step
\* changes current, done, the toggles, the retest flag, the last outcome
\* or the screen, or starts a test; only q, Esc or Ctrl-C leaves it.
C6_AllCompleteAbsorbing ==
    [][pc = "wait_quit" =>
         \/ /\ pc' = "wait_quit"
            /\ UNCHANGED <<done, current, show_hint, show_list, needs_retest,
                           last_result, screen, raw_mode>>
         \/ /\ pc' = "exit"
            /\ key' \in QuitKeys
            /\ UNCHANGED <<done, current>>]_vars

\* C6 witness (scenario C): a key other than Quit was read in AllComplete.
C6_Witness ==
    /\ pc = "wait_quit"
    /\ key \in {"n", "p", "h", "l", "r", "Enter"}
    /\ \A i \in Indices : done[i]

\* The screen after key 'h' is pressed with the hint flag sh.
AfterHint(sh) ==
    hint_redraw(exercises, current, done, last_result, ~sh, show_list)

\* The screen after key 'l' is pressed with the list flag sl.
AfterList(sl) ==
    list_redraw(exercises, current, done, last_result, show_hint, ~sl)

\* The step in which the poll reads key k.
ReadsKey(k) == Polling /\ key' = k /\ pc' # "loop"

\* C7: toggle idempotence.  From every idle state, the exercise list
\* displayed or not, pressing 'h' twice with no retest between shows again
\* the screen that was shown before the first press, and neither press
\* changes done or current.
C7_HintTwiceRestores ==
    /\ [](Polling => AfterHint(~show_hint) = screen)
    /\ [][ReadsKey("h") => UNCHANGED <<done, current>>]_vars

\* C8: list precedence.  Whenever show_list is true the exercise list is
\* what is shown below the header, whatever show_hint is; the outcome panel
\* and the hint block are shown only when show_list is false.  (The screen
\* of every state before the exit is the last render, drawn with the flags
\* of that state.)
C8_ListPrecedence ==
    pc # "exit" =>
        /\ show_list =>
             /\ Shown(screen, "list")
             /\ ~Shown(screen, "failed")
             /\ ~Shown(screen, "test_passed")
             /\ ~Shown(screen, "hint")
        /\ Shown(screen, "list") => show_list

\* C9: while a failure panel is shown, 'l' shows the exercise list and a
\* second 'l' shows the same failure panel again from the same stored
\* outcome; neither press starts a test or requests one.
C9_ListTwiceRestores ==
    /\ [](Polling /\ Shown(screen, "failed") =>
            /\ Shown(AfterList(show_list), "list")
            /\ ~Shown(AfterList(show_list), "failed")
            /\ AfterList(~show_list) = screen)
    /\ [][ReadsKey("l") =>
            /\ pc' = "fs_check"
            /\ UNCHANGED <<needs_retest, last_result>>]_vars

\* C10: 'h' and 'l' flip only their own flag and redraw from the stored
\* last outcome: the step starts no test, requests no retest and leaves
\* current, done and the last outcome unchanged.
C10_ToggleFrame ==
    [][/\ ReadsKey("h") => show_hint' = ~show_hint /\ show_list' = show_list
       /\ ReadsKey("l") => show_list' = ~show_list /\ show_hint' = show_hint
       /\ (ReadsKey("h") \/ ReadsKey("l")) =>
            /\ pc' = "fs_check"
            /\ UNCHANGED <<needs_retest, current, done, last_result>>
            /\ screen'[1].kind = "header"
            /\ screen'[1].name = current
            /\ \A i \in DOMAIN screen' :
                 screen'[i].kind = "output" =>
                    /\ last_result # None
                    /\ screen'[i].last = last_result[1].output]_vars

\* C10 witness: 'l' was pressed with the hint on, and both flags are set.
C10_Witness ==
    /\ pc = "fs_check"
    /\ key = "l"
    /\ show_list
    /\ show_hint
    /\ ~needs_retest

\* test_exercise returns, with either result.
RunReturns == pc = "testing" /\ pc' \in {"loop", "wait_quit"}

\* The first incomplete exercise of d.
FirstIncomplete(d) ==
    CHOOSE i \in DOMAIN d : ~d[i] /\ \A j \in DOMAIN d : j < i => d[j]

\* C11: debounce.  The signals that arrive within the quiet window stay
\* queued and request nothing by themselves; at its end all of them are
\* taken, the channel is empty and one retest is owed; the runs that the
\* controller makes for the signals it took are one run, plus one for each
\* auto-advance after a pass.
C11_Debounce ==
    [][/\ (pc = "debounce" /\ pc' = "debounce") =>
            UNCHANGED <<needs_retest, hist, current, done, screen>>
       /\ (pc = "debounce" /\ pc' # "debounce") =>
            /\ pc' = "loop"
            /\ fs_rx' = 0
            /\ needs_retest'
            /\ hist'.runs = 0
       /\ (RunReturns /\ hist.signals >= 1) =>
            /\ hist.runs = hist.jumps + 1
            /\ (Polling' => hist'.runs = 0)]_vars

\* C11 witness: the one run for a burst of two or more signals is running.
C11_Witness ==
    /\ pc = "testing"
    /\ hist.signals = 2
    /\ ~hist.key
    /\ hist.runs = 1
    /\ hist.jumps = 0

\* C12 as stated: when a key that requests a retest and a file-change
\* signal are observed in the same idle iteration, exactly one run has been
\* made when the controller is idle again.
C12_OneRunBeforeIdle ==
    [][(RunReturns /\ Polling' /\ hist.key /\ hist.signals >= 1) =>
          hist.runs = 1]_vars

\* C12 amended: the signals seen in an iteration are taken whether or not
\* a key of that iteration has requested a retest, and the two triggers
\* together start exactly one run; every further run before the controller
\* is idle again is the retest of an auto-advance after a pass, so that a
\* failing first run is the only run.
C12_OneRunForBothTriggers ==
    [][/\ (pc = "fs_check" /\ fs_rx > 0 /\ pc' # "fs_check") =>
            /\ pc' = "debounce"
            /\ fs_rx' = 0
            /\ needs_retest' = needs_retest
       /\ (RunReturns /\ hist.key /\ hist.signals >= 1) =>
            /\ hist.runs = hist.jumps + 1
            /\ (hist.runs = 1 /\ ~Shown(screen', "passed") => Polling')]_vars

\* C12 witness: the run for a key and a signal of one iteration is running.
C12_Witness ==
    /\ pc = "testing"
    /\ hist.key
    /\ hist.signals >= 1
    /\ hist.runs = 1

\* A file-change signal is in the channel and the controller has not taken
\* it; the session has neither completed nor quit.
SignalPending == fs_rx > 0 /\ pc \in {"loop", "testing", "fs_check"}

\* The Retest key has just been read.
RetestKeyRead == pc = "fs_check" /\ key \in {"r", "Enter"}

\* C13 as stated: under fairness of the controller, every signal sent and
\* every Retest key read while the session is neither complete nor quit is
\* followed by a run: the signal is taken into a debounce, and a debounce
\* and a Retest key lead to the start of a run.
C13_RetestLiveness ==
    /\ SignalPending ~> pc = "debounce"
    /\ pc = "debounce" ~> pc = "testing"
    /\ RetestKeyRead ~> pc = "testing"

\* C13 amended: a Retest key read and a signal taken are followed by a run;
\* a signal sent is taken and followed by a run unless the session ends
\* first, by a quit key read before the signal is seen, by the run in
\* progress completing the last exercise, or by a panic.
C13_RetestLivenessUnlessEnded ==
    /\ SignalPending ~> pc \in {"debounce", "exit", "wait_quit", "panicked"}
    /\ pc = "debounce" ~> pc = "testing"
    /\ RetestKeyRead ~> pc = "testing"

\* C13 witness: the run for a signal taken is running and the next signal
\* is already in the channel.
C13_Witness ==
    /\ pc = "testing"
    /\ hist.signals = 1
    /\ ~hist.key
    /\ hist.runs = 1
    /\ fs_rx > 0

\* C14: Next sets current to (current + 1) mod total and Previous to
\* (current - 1) mod total, each marks a retest owed, and the next render
\* after the key is drawn with both toggles false.
C14_NextPrevious ==
    [][/\ ReadsKey("n") =>
            current' = (current + 1) % total /\ needs_retest'
       /\ ReadsKey("p") =>
            current' = (current + total - 1) % total /\ needs_retest'
       /\ (pc \in {"fs_check", "debounce"} /\ needs_retest) =>
            screen' = screen /\ needs_retest'
       /\ (pc = "loop" /\ needs_retest /\ screen' # screen) =>
            ~show_hint' /\ ~show_list']_vars

\* C14 witness: Next has wrapped from the last index to 0 with both toggles
\* set.
C14_Witness ==
    /\ pc = "fs_check"
    /\ key = "n"
    /\ total > 1
    /\ current = 0
    /\ show_hint
    /\ show_list

\* C15: the Retest key and the end of a debounce mark a retest owed and
\* leave current and done unchanged; so does every step from there to the
\* start of the run, which is the run of current.
C15_RetestKeepsCurrent ==
    [][/\ (ReadsKey("r") \/ ReadsKey("Enter")) =>
            needs_retest' /\ UNCHANGED <<current, done>>
       /\ (pc = "debounce" /\ pc' # "debounce") =>
            needs_retest' /\ UNCHANGED <<current, done>>
       /\ (pc \in {"fs_check", "debounce"} \/ (pc = "loop" /\ needs_retest)) =>
            UNCHANGED <<current, done>>
       /\ (pc = "loop" /\ pc' = "testing") =>
            screen'[2] = [kind |-> "testing", name |-> current]]_vars

\* C15 witness: Enter was read on an exercise other than the first while a
\* signal is queued.
C15_Witness ==
    /\ pc = "fs_check"
    /\ key = "Enter"
    /\ needs_retest
    /\ fs_rx > 0
    /\ current > 0

\* C16: whenever a retest begins, show_hint and show_list are both false,
\* whatever they were before.
C16_TogglesClearedAtRetest ==
    /\ [](pc = "testing" => ~show_hint /\ ~show_list)
    /\ [][(pc # "testing" /\ pc' = "testing") =>
            ~show_hint' /\ ~show_list']_vars

\* C16 witness: a retest is about to begin with both toggles set.
C16_Witness ==
    /\ pc = "loop"
    /\ needs_retest
    /\ show_hint
    /\ show_list

\* C17: if every exercise passes the startup probe, watch mode returns
\* without raw mode, without a watcher and without a run of test_exercise.
C17_AllPassedEarlyReturn ==
    /\ [](pc \in {"scan", "returned"} =>
            /\ ~raw_mode
            /\ ~watching
            /\ fs_rx = 0
            /\ last_result = None
            /\ hist.runs = 0
            /\ ~Shown(screen, "testing"))
    /\ [][(pc = "scan" /\ scan_i = total /\ \A i \in Indices : done[i]) =>
            pc' = "returned"]_vars
    /\ [][pc = "returned" => pc' = "returned"]_vars

\* C17 witness: two or more exercises all passed and watch mode returned.
C17_Witness ==
    /\ pc = "returned"
    /\ total >= 2
    /\ \A i \in Indices : done[i]

\* C18: if some exercise fails the startup probe, done records every probe
\* result, and on entering the loop current is the smallest index with
\* done false and a retest is owed, so that the first run is on it.
C18_StartupState ==
    [][/\ \A p \in BOOLEAN : Probe(p) =>
            /\ done'[scan_i] = p
            /\ \A j \in Indices \ {scan_i} : done'[j] = done[j]
       /\ (pc = "scan" /\ pc' = "loop") =>
            /\ done' = done
            /\ current' = FirstIncomplete(done)
            /\ needs_retest'
       /\ (pc = "loop" /\ pc' = "testing" /\ last_result = None) =>
            /\ current = FirstIncomplete(done)
            /\ screen'[2] = [kind |-> "testing", name |-> current]]_vars

\* C18 witness: the first run is on exercise 1, the first of two that
\* failed the probe.
C18_Witness ==
    /\ pc = "testing"
    /\ last_result = None
    /\ total = 3
    /\ done[0]
    /\ ~done[1]
    /\ ~done[2]
    /\ current = 1

\* C19: raw mode is released on every exit path.  In every state in which
\* watch mode has ended (return, quit or panic) raw mode is off.
C19_RawModeReleased ==
    pc \in {"returned", "exit", "panicked"} => ~raw_mode

\* C20: inability to watch the exercises directory is fatal at startup.
\* The main loop is entered only with the directory watched.
C20_WatchFailureFatal ==
    pc \in {"loop", "testing", "fs_check", "debounce", "wait_quit"} => watching

\* The session state that the controller owns.
Session == <<done, current, show_hint, show_list, last_result, needs_retest>>

\* C21: a failure to spawn cargo aborts the program at once in both entry
\* points: in test_exercise, and in the quiet probe of the startup scan,
\* where it is never taken for a failing test.
C21_SpawnFailureFatal ==
    [][/\ SpawnFails => pc' = "panicked"
       /\ QuietProbe("spawn_error") => pc' = "panicked"]_vars

\* C22: the watcher thread shares no session state with the controller.  A
\* step of the watcher sends at most one unit signal and changes nothing
\* else; every step that adds a signal is such a step; and done, current,
\* the toggles, the last outcome and the retest flag change only in steps of
\* the controller.
C22_WatcherSharesNothing ==
    [][/\ (WatcherEvent \/ fs_rx' > fs_rx) =>
            /\ fs_rx' \in {fs_rx, fs_rx + 1}
            /\ UNCHANGED <<Session, key, screen, pc, raw_mode, watching, hist>>
       /\ Session' # Session => Controller /\ fs_rx' <= fs_rx]_vars

\* C22 witness: a signal is queued while the controller idles with the hint
\* and the list toggled on.
C22_Witness ==
    /\ pc = "loop"
    /\ ~needs_retest
    /\ fs_rx > 0
    /\ show_hint
    /\ show_list

\* C23: no cancellation.  While test_exercise runs the controller reads no
\* key, takes no signal and changes no session state; signals sent in that
\* time stay queued, and the step in which the run returns reads neither.
C23_NoCancellation ==
    [][/\ (pc = "testing" /\ pc' = "testing") =>
            /\ fs_rx' >= fs_rx
            /\ UNCHANGED <<Session, key, screen, raw_mode, hist>>
       /\ (pc = "testing" /\ pc' # "testing") =>
            /\ pc' \in {"loop", "wait_quit", "panicked"}
            /\ key' = key
            /\ fs_rx' = fs_rx]_vars

\* C23 witness: two signals are queued during a run that a key requested.
C23_Witness ==
    /\ pc = "testing"
    /\ hist.key
    /\ hist.signals = 0
    /\ fs_rx = 2

\* A quit key is read by the idle poll.
ReadsQuit == Polling /\ key' \in QuitKeys

\* C24: a quit key read while the controller is idle ends the loop at once:
\* the session state and the queued signals are left as they are, no run
\* is started, and nothing happens after the exit.
C24_QuitAtOnce ==
    [][/\ ReadsQuit =>
            /\ pc' = "exit"
            /\ ~raw_mode'
            /\ UNCHANGED <<Session, fs_rx>>
       /\ pc = "exit" => UNCHANGED vars]_vars

\* C24 witness: the loop was left from the idle state, with exercises still
\* incomplete and a signal pending.
C24_Witness ==
    /\ pc = "exit"
    /\ key \in QuitKeys
    /\ fs_rx > 0
    /\ \E i \in Indices : ~done[i]

\* C25: progress-bar arithmetic.  For width 20, every total >= 1 and every
\* done count in 0 .. total, the bar of the header has floor(done*20/total)
\* filled segments out of 20 and its label shows floor(done*100/total)
\* percent.
C25_ProgressBar ==
    pc = "header_rendered" =>
        LET bar == screen[1].bar
            dn  == count_done(done)
        IN  /\ bar.done = dn /\ bar.total = total
            /\ bar.filled * total <= dn * 20
            /\ dn * 20 < (bar.filled + 1) * total
            /\ bar.filled + bar.empty = 20
            /\ bar.pct * total <= dn * 100
            /\ dn * 100 < (bar.pct + 1) * total

\* C25 witness: a header whose bar and whose percentage are both rounded
\* down.
C25_Witness ==
    /\ pc = "header_rendered"
    /\ screen[1].bar.filled * total < count_done(done) * 20
    /\ screen[1].bar.pct * total < count_done(done) * 100

\* C26: the failure panel shows the last min(L, 30) of the L lines of
\* output in their order, and the omitted-lines marker exactly when L > 30,
\* with the number L - 30.
C26_FailureTail ==
    pc = "failure_rendered" =>
        LET L      == last_result[1].output
            shown  == screen[Len(screen)]
            marker == {i \in DOMAIN screen : screen[i].kind = "omitted"}
        IN  /\ shown.kind = "output"
            /\ shown.last = L
            /\ shown.last - shown.first + 1 = (IF L < 30 THEN L ELSE 30)
            /\ (marker # {}) <=> (L > 30)
            /\ \A i \in marker : screen[i].lines = L - 30 /\ i = Len(screen) - 1

\* C26 witness: a panel for more than 30 lines of output.
C26_Witness ==
    /\ pc = "failure_rendered"
    /\ last_result[1].output > 30
    /\ Shown(screen, "omitted")

\* C27: in what rprint and rprintln write, every linefeed is immediately
\* preceded by a carriage return.
C27_LineTerminators ==
    pc = "printed" =>
        \A i \in DOMAIN screen :
            screen[i] = "LF" => i > 1 /\ screen[i - 1] = "CR"

\* C27 witness: rprintln of a text that ends with a line terminator.
C27_Witness ==
    /\ pc = "printed"
    /\ screen = <<"x", "CR", "LF", "CR", "LF">>

\* C28: after the startup scan done changes only when a run returns
\* passed, and then only done[current] changes, from false to true; no key
\* and no file-change signal changes done.
C28_DoneOnlyByPass ==
    [][(pc # "scan" /\ done' # done) =>
          /\ RunPassed
          /\ Shown(screen', "passed")
          /\ ~done[current]
          /\ done' = [done EXCEPT ![current] = TRUE]]_vars

\* C28 witness: the only exercise done is the last one, which has just
\* passed its retest.
C28_Witness ==
    /\ pc = "loop"
    /\ Shown(screen, "auto_jump")
    /\ total = 3
    /\ done[2]
    /\ count_done(done) = 1
    /\ last_result # None
    /\ last_result[1].passed

\* C29: a key other than q, Esc, Ctrl-C, h, l, n, p, r and Enter is ignored
\* by the idle loop: reading it changes no session state and draws nothing,
\* and with no signal queued the controller is idle again with no run.
C29_OtherKeysIgnored ==
    [][/\ ReadsKey("other") =>
            /\ pc' = "fs_check"
            /\ UNCHANGED <<Session, screen, fs_rx, raw_mode>>
       /\ (pc = "fs_check" /\ key = "other" /\ fs_rx = 0 /\ pc' # pc) =>
            /\ Polling'
            /\ UNCHANGED <<Session, screen>>]_vars

\* C29 witness: another key was read while the hint was shown and no signal
\* was queued.
C29_Witness ==
    /\ pc = "fs_check"
    /\ key = "other"
    /\ show_hint
    /\ fs_rx = 0

\* The results the callback can be given for a rename, for a delete, and
\* as an error.
RenameResult == [ok |-> TRUE, kind |-> <<"Modify", "Name">>]
RemoveResult == [ok |-> TRUE, kind |-> <<"Remove">>]
ErrorResult == [ok |-> FALSE, kind |-> <<"Error">>]

\* C30 as stated: only modify and create events put a signal on the
\* channel; delete and rename events and error results put none.
C30_OnlyModifyCreate ==
    [][\A res \in {RenameResult, RemoveResult, ErrorResult} :
          Callback(res) => fs_rx' = fs_rx]_vars

\* C30 amended: the events of kind Modify, of which a rename is one, and of
\* kind Create put one signal on the channel; every other event and every
\* error result puts none; a debounce, and with it a retest for a file
\* change, starts only from a signal.
C30_OnlyModifyCreateKinds ==
    [][/\ \A res \in WatchResults :
            fs_rx' # (IF res.ok /\ res.kind[1] \in {"Modify", "Create"}
                        THEN fs_rx + 1 ELSE fs_rx)
                => ~Callback(res)
       /\ fs_rx' > fs_rx => \E res \in WatchResults : Callback(res)
       /\ (pc # "debounce" /\ pc' = "debounce") => fs_rx > 0]_vars

\* C30 witness: the controller has taken a signal and is in its quiet
\* window with the channel empty.
C30_Witness ==
    /\ pc = "debounce"
    /\ fs_rx = 0
    /\ hist.signals = 1
    /\ ~needs_retest

\* The controller is idle: it polls for a key or checks the watch channel.
Idle == Polling \/ pc \in {"fs_check", "debounce"}

\* C32 as stated: in every idle state done[i] is true only if the most
\* recent test of exercise i passed.  A failing run ends in an idle state
\* in which it is the most recent test of current, so done[current] would
\* be false there.
C32_DoneIsLatestResult ==
    [][RunFailed => Idle' /\ ~done'[current']]_vars

\* C32 amended: done[i] is true exactly when some test of exercise i has
\* passed in this session.  It becomes true only in the probe or the run of
\* exercise i that passes, every passing probe and run sets it, and a later
\* failing run leaves it as it is.
C32_DoneIsEverPassed ==
    [][/\ \A i \in Indices :
            done'[i] # done[i] =>
                /\ done'[i]
                /\ \/ QuietProbe("success") /\ i = scan_i
                   \/ RunPassed /\ i = current
       /\ QuietProbe("success") => done'[scan_i]
       /\ QuietProbe("failure") => ~done'[scan_i]
       /\ RunPassed => done'[current]
       /\ RunFailed => Idle' /\ done' = done]_vars

\* C32 witness: the controller is in a quiet window on an exercise that is
\* marked done and whose latest run failed.
C32_Witness ==
    /\ pc = "debounce"
    /\ ~needs_retest
    /\ done[current]
    /\ last_result # None
    /\ ~last_result[1].passed

\* C33: whenever the loop is idle the stored outcome exists and is a
\* failure; it is the outcome of the latest run, which was of the exercise
\* that is current at the poll and is named in the header; idle steps keep
\* it; and no screen shows the banner that full_redraw has for a passing
\* outcome.
C33_IdleOutcomeFailed ==
    /\ [](Idle => last_result # None /\ ~last_result[1].passed)
    /\ [](Polling => screen[1].kind = "header" /\ screen[1].name = current)
    /\ [](~Shown(screen, "test_passed"))
    /\ [][RunFailed =>
            /\ Polling'
            /\ current' = current
            /\ last_result' # None
            /\ \A i \in DOMAIN screen' :
                 screen'[i].kind = "output" =>
                     screen'[i].last = last_result'[1].output]_vars
    /\ [][Idle => last_result' = last_result]_vars

\* C33 witness: the hint is shown below the failure panel of the stored
\* outcome.
C33_Witness ==
    /\ Polling
    /\ show_hint
    /\ ~show_list
    /\ Shown(screen, "hint")
    /\ Shown(screen, "failed")

\* C34: after a passing run that auto-advances the next run starts with no
\* poll of the keyboard and no check of the channel; through a chain of
\* passes no key is read and no signal is taken until a run fails or all
\* exercises are complete.
C34_AutoAdvanceChain ==
    [][/\ RunPassedAdvance =>
            pc' = "loop" /\ needs_retest' /\ key' = key /\ fs_rx' = fs_rx
       /\ (pc = "loop" /\ hist.jumps > 0 /\ pc' # pc) =>
            /\ pc' = "testing"
            /\ UNCHANGED <<current, done, key, fs_rx>>
       /\ hist.jumps > 0 =>
            /\ key' = key
            /\ fs_rx' >= fs_rx
            /\ pc' \in {"loop", "testing", "wait_quit", "panicked"}]_vars

\* C34 witness: the third run of a chain is running with a signal queued.
C34_Witness ==
    /\ pc = "testing"
    /\ hist.jumps = 2
    /\ hist.runs = 3
    /\ fs_rx > 0

\* What C35 says of the signals in every case: a run leaves them in the
\* channel; the file-watch check of an idle iteration takes all of them
\* into one debounce; the debounce ends with one retest owed on the
\* exercise that is current then; and the runs made for them are one run
\* plus one for each auto-advance.
SignalsKept ==
    /\ (pc = "loop" /\ pc' = "testing") => fs_rx' = fs_rx
    /\ pc = "testing" => fs_rx' >= fs_rx
    /\ (pc = "fs_check" /\ fs_rx > 0 /\ pc' # pc) =>
            pc' = "debounce" /\ fs_rx' = 0 /\ current' = current
    /\ (pc = "debounce" /\ pc' # pc) =>
            pc' = "loop" /\ needs_retest' /\ fs_rx' = 0 /\ current' = current
    /\ (RunReturns /\ hist.signals >= 1) => hist.runs = hist.jumps + 1

\* C35 as stated: the signals sent during a run are not lost.  They stay
\* queued, and once the session is idle the iteration that finds them
\* queued goes on to the file-watch check, which takes them into exactly
\* one debounced retest of the current exercise.
C35_SignalsNotLost ==
    [][/\ SignalsKept
       /\ (Polling /\ fs_rx > 0 /\ pc' # pc) => pc' = "fs_check"]_vars

\* C35 amended: the same, unless the idle iteration reads a quit key, which
\* ends the loop before the file-watch check and leaves the signals unread.
C35_SignalsNotLostUnlessQuit ==
    [][/\ SignalsKept
       /\ (Polling /\ fs_rx > 0 /\ pc' # pc) =>
            IF key' \in QuitKeys
              THEN pc' = "exit" /\ fs_rx' = fs_rx
              ELSE pc' = "fs_check" /\ fs_rx' = fs_rx]_vars

\* C35 witness: two signals that were queued have been taken into one quiet
\* window after an earlier run.
C35_Witness ==
    /\ pc = "debounce"
    /\ hist.signals = 2
    /\ ~hist.key
    /\ fs_rx = 0
    /\ last_result # None

\* The keys that request a retest.
RetestKeys == {"n", "p", "r", "Enter"}

RunsToComplete(d, cur) ==
    Cardinality({i \in DOMAIN d : ~d[i]}) + (IF d[cur] THEN 1 ELSE 0)

\* C37: termination by completion.  With a retest owed the next step of
\* the controller is a run, with no input; a passing run that is not the
\* last lowers RunsToComplete by one and owes the next run; and the run
\* that passes with RunsToComplete = 1, and no other, enters AllComplete.
C37_CompletionCount ==
    [][/\ (pc = "loop" /\ needs_retest /\ pc' # pc) =>
            /\ pc' = "testing"
            /\ UNCHANGED <<done, current, key, fs_rx>>
       /\ (pc \in {"loop", "testing"}) => RunsToComplete(done, current) >= 1
       /\ RunPassedAdvance =>
            /\ RunsToComplete(done, current) > 1
            /\ RunsToComplete(done', current') = RunsToComplete(done, current) - 1
            /\ pc' = "loop" /\ needs_retest'
       /\ RunPassedAllComplete =>
            /\ RunsToComplete(done, current) = 1
            /\ pc' = "wait_quit"
            /\ \A i \in Indices : done'[i]
       /\ (RunPassed /\ RunsToComplete(done, current) = 1) =>
            pc' = "wait_quit"]_vars

\* C37 witness: a key has led to the run of an exercise that is done while
\* two of three exercises are not.
C37_Witness ==
    /\ pc = "testing"
    /\ hist.key
    /\ hist.runs = 1
    /\ total = 3
    /\ done[current]
    /\ RunsToComplete(done, current) = 3

\* C38: with an empty exercise list watch mode ends in the all-passed
\* branch of the startup: no header is ever rendered (exercises[current] is
\* never read), the loop with its key handlers is never entered, and
\* progress_bar with total = 0 gives 0 filled segments and 0 percent.
C38_EmptyList ==
    /\ [](total = 0 =>
            /\ pc \in {"scan", "returned"}
            /\ ~raw_mode
            /\ ~needs_retest
            /\ last_result = None
            /\ current = 0
            /\ ~Shown(screen, "header")
            /\ progress_bar(0, total, bar_width).filled = 0
            /\ progress_bar(0, total, bar_width).pct = 0)
    /\ [][total = 0 => pc' = "returned" /\ Shown(screen', "congratulations")]_vars

\* C38 witness: watch mode has returned for an empty list.
C38_Witness ==
    /\ total = 0
    /\ pc = "returned"

\* A text whose every linefeed is immediately preceded by a carriage return.
CrLfTerminated(s) ==
    \A i \in DOMAIN s : s[i] = "LF" => i > 1 /\ s[i - 1] = "CR"

\* C39: line-ending normalisation is idempotent.  rprint writes a text
\* whose terminators are already CR LF unchanged, and normalising what
\* rprint or rprintln has written gives the same text again.
C39_RprintIdempotent ==
    /\ [](pc = "printed" => rprint(screen) = screen)
    /\ [][\A s \in Texts :
            RprintText(s) =>
                /\ rprint(rprint(s)) = rprint(s)
                /\ CrLfTerminated(s) => screen' = s]_vars

\* C39 witness: rprint has written a text that begins with CR LF.
C39_Witness ==
    /\ pc = "printed"
    /\ screen = <<"CR", "LF", "x">>

\* The name matches the package of no exercise.
NoMatch(name) == \A i \in DOMAIN exercises : exercises[i] # name

\* C31: in run_mode and hint_mode a name that matches no exercise's package
\* is reported on standard error and the process exits with a non-zero
\* status; no test is run and the terminal never enters raw mode.
C31_NameNotFound ==
    /\ [][\A name \in Names :
            (NoMatch(name) /\ (RunModeFind(Some(name)) \/ HintModeFind(Some(name)))) =>
                /\ pc' = "exited_failure"
                /\ screen' = <<[kind |-> "stderr", text |-> "not_found",
                                name |-> name],
                               [kind |-> "stderr", text |-> "use_list"]>>
                /\ last_result' = None]_vars
    /\ [](pc = "exited_failure" =>
            /\ last_result = None
            /\ \A i \in DOMAIN screen : screen[i].kind = "stderr")
    /\ [](~raw_mode /\ ~watching)
    /\ [](pc = "run_testing" => ~NoMatch(exercises[current + 1]))

\* C31 witness: a name that none of three exercises has was given, and the
\* process has exited.
C31_Witness ==
    /\ pc = "exited_failure"
    /\ total = 3
    /\ screen # <<>>
    /\ screen[1].text = "not_found"
    /\ NoMatch(screen[1].name)

====
